---- MODULE Spec2Model ----
(***************************************************************************)
(* The "Wrapped" front end: the stats proxy route (GET /api/wrapped) and   *)
(* the flight timeline of the /wrapped page.                               *)
(*                                                                         *)
(* SpecProxy  : one GET request, from its arrival to its response, with    *)
(*              every await of the handler as a separate step.             *)
(* SpecFlight : the page's render loop, one step per animation frame.      *)
(* SpecStats  : one load of the page, with every profile the summary       *)
(*              statistics are computed from.                              *)
(* SpecClient : the page's load effect over several loads, with every      *)
(*              outcome of its fetch.                                      *)
(***************************************************************************)
EXTENDS Integers, Sequences, FiniteSets, TLC

(***************************************************************************)
(* Bounds of the model                                                     *)
(***************************************************************************)
MaxRepos == 6        \* longest repository list the GraphQL query returns
TicksPerSec == 2     \* resolution of the render clock (ticks per second)
MaxDt == 24          \* longest gap between two animation frames, in ticks
MaxClockSec == 100   \* the render clock is followed up to this many seconds
MaxOwned == 3        \* longest repository list of a profile
MaxContribs == 2     \* longest commitContributionsByRepository of a profile
MaxLangs == 2        \* most languages attached to one repository
MaxLoads == 2        \* runs of the page's load effect
RigStepSec == 5     \* the shorter frame interval of the flights whose rig is followed, in seconds

(***************************************************************************)
(* Program constants                                                       *)
(***************************************************************************)
Retries == 3         \* fetchStatsWithRetry(..., retries = 3)
TopRepoCount == 5    \* user.repositories.nodes.slice(0, 5)
GridDays == 7        \* Array(7)
GridHours == 24      \* Array(24)
InitPeakHour == 12   \* let peakHour = 12
DefaultPeakHour == 14
DefaultPeakDay == 3
DefaultMaxCommits == 1
JOURNEY_DURATION == 90   \* seconds
TOTAL_DISTANCE == 3000   \* total Z units to travel
Tolerance == 100         \* baseZ <= SECTORS.x.z + 100
EaseFromPct == 95        \* t > 0.95
EaseFactor == 20         \* 1 - 20 * (1 - t) * (1 - t)
lookAheadZ == -60        \* const lookAheadZ = -60
FullDistance == 80       \* if (distance < 80) return 1
fadeInDistance == 120    \* const fadeInDistance = 120
fadeOutDistance == 180   \* const fadeOutDistance = 180

Null == "<null>"     \* JavaScript null / undefined

\* Values a query parameter can take: absent (null), empty, or a login.
ParamValues == {Null, "", "octocat", "hubot"}

\* Rows [weekday, hour, count] a punch-card table is made of.
PunchRows == { <<0, 14, 5>>, <<0, 14, 3>>, <<3, 2, 5>> }

\* The punch-card tables a successful fetch can return.
PunchCards == { << >>,
                << <<0, 14, 5>> >>,
                << <<0, 14, 3>> >>,
                << <<3, 2, 5>>, <<3, 2, 5>> >> }

\* The one table of the request-level specification.
OneCard == { << <<0, 14, 5>> >> }

\* A request with a username and a configured credential.
GoodParams == {"octocat"}

\* Outcomes of one punch-card attempt that are not "200 with an array body".
FailureKinds == {"status202", "status200NoArray", "throws"}

VARIABLES
    pc,             \* where the GET handler is suspended
    qUsername,      \* searchParams.get('username')
    qUser,          \* searchParams.get('user')
    token,          \* process.env.GITHUB_TOKEN is set
    username,       \* the resolved username
    gqlCalls,       \* GraphQL queries issued, as a sequence of logins
    gqlResult,      \* how the GraphQL query ended: "none", "resolved", "rejected"
    nodes,          \* user.repositories.nodes (repository names)
    repoIdx,        \* position of the for-of loop in topRepos
    attempt,        \* i of fetchStatsWithRetry
    fetches,        \* punch-card fetches issued, per repository
    outstanding,    \* punch-card fetches issued and not yet answered
    result,         \* what fetchStatsWithRetry returned, per repository
    received,       \* how often each row arrived in a successful table
    activityGrid,   \* the 7 x 24 grid
    activityStats,  \* {peakDay, peakHour, maxCommits} of the response
    respStatus,     \* HTTP status of the response (0: none yet)
    respBody,       \* field names of the response body
    clock,          \* state.clock.elapsedTime, in ticks
    dataLoaded,     \* data !== null (the Canvas is mounted)
    started,        \* WrappedContent.started
    flightStartTime,\* WrappedContent.flightStartTime, in ticks (NoTime: null)
    stage,          \* WrappedContent.stage
    previousStage,  \* FlightController.previousStage.current
    frame,          \* the locals of the last frame FlightController processed
    reported,       \* the stages passed to onStageChange, in order
    currentPos,     \* FlightController.currentPos.current
    currentLookAt,  \* FlightController.currentLookAt.current
    cameraZ,        \* WrappedContent.cameraZ
    cameraZUpdates, \* calls of onCameraZUpdate made by the controller so far
    loads,          \* runs of the page's load effect so far
    requests,       \* the URLs the page has fetched, in order
    pending,        \* positions in `requests` of the fetches not yet settled
    lastResponse,   \* the outcome of the fetch that settled last
    data,           \* WrappedContent.data (after the memo ran on it)
    error,          \* WrappedContent.error
    pageStats       \* WrappedContent.stats, the value of the memo

proxyVars == <<pc, qUsername, qUser, token, username, gqlCalls, gqlResult, nodes, repoIdx,
               attempt, fetches, outstanding, result, received, activityGrid,
               activityStats, respStatus, respBody>>

rigVars == <<currentPos, currentLookAt, cameraZ, cameraZUpdates>>

flightVars == <<clock, dataLoaded, started, flightStartTime, stage,
                previousStage, frame, reported, rigVars>>

clientVars == <<loads, requests, pending, lastResponse, data, error, pageStats>>

vars == <<proxyVars, flightVars, clientVars>>

Min(a, b) == IF a <= b THEN a ELSE b

\* Variant: only an absent parameter counts as missing.
Truthy_NullOnly(v) == v # Null

Truthy(v) == v # Null /\ v # ""

ZeroGrid == [d \in 0..(GridDays - 1) |-> [h \in 0..(GridHours - 1) |-> 0]]

NoStats == [peakDay |-> 0, peakHour |-> 0, maxCommits |-> 0]

(***************************************************************************)
(* Pure parts of the handler                                               *)
(***************************************************************************)

\* Variant: the key `user` is ignored.
ResolveUsername_NoAlias(u, v) == u

\* searchParams.get('username') || searchParams.get('user')
ResolveUsername(u, v) == IF Truthy(u) THEN u ELSE v

\* Variant: every repository of the list is sampled.
TopRepos_NoSlice(ns) == ns

\* user.repositories.nodes.slice(0, 5)
TopRepos(ns) == SubSeq(ns, 1, Min(TopRepoCount, Len(ns)))

\* Variant: the cell is overwritten (=) instead of added to (+=).
AddEntry_Overwrite(grid, entry) ==
    [grid EXCEPT ![entry[1]][entry[2]] = entry[3]]

\* activityGrid[entry[0]][entry[1]] += entry[2]
AddEntry(grid, entry) ==
    [grid EXCEPT ![entry[1]][entry[2]] = @ + entry[3]]

\* stats.forEach(entry => ...)
RECURSIVE ForEachEntry(_, _)
ForEachEntry(grid, stats) ==
    IF stats = << >> THEN grid
    ELSE ForEachEntry(AddEntry(grid, Head(stats)), Tail(stats))

\* Variant: count >= maxCommits, so a later cell with the same count wins.
Exceeds_OrEqual(count, max) == count >= max

\* if (count > maxCommits)
Exceeds(count, max) == count > max

\* hours.forEach((count, h) => { if (count > maxCommits) { maxCommits = count;
\* peakDay = d; peakHour = h } }) for the row of day d, from hour h on
RECURSIVE ScanHours(_, _, _, _)
ScanHours(hours, d, h, acc) ==
    IF h >= GridHours THEN acc
    ELSE IF Exceeds(hours[h], acc.maxCommits)
         THEN ScanHours(hours, d, h + 1,
                        [peakDay |-> d, peakHour |-> h, maxCommits |-> hours[h]])
         ELSE ScanHours(hours, d, h + 1, acc)

\* activityGrid.forEach((hours, d) => ...) from day d on
RECURSIVE ScanDays(_, _, _)
ScanDays(grid, d, acc) ==
    IF d >= GridDays THEN acc
    ELSE ScanDays(grid, d + 1, ScanHours(grid[d], d, 0, acc))

\* let maxCommits = 0; let peakDay = 0; let peakHour = 12; then the scan
ScanPeak(grid) ==
    ScanDays(grid, 0, [peakDay |-> 0, peakHour |-> InitPeakHour, maxCommits |-> 0])

\* Variant: no default for an empty grid.
PeakFallback_None(p) == p

\* if (maxCommits === 0) { peakHour = 14; peakDay = 3; maxCommits = 1 }
PeakFallback(p) ==
    IF p.maxCommits = 0
    THEN [peakDay |-> DefaultPeakDay, peakHour |-> DefaultPeakHour,
          maxCommits |-> DefaultMaxCommits]
    ELSE p

CalcPeak(grid) == PeakFallback(ScanPeak(grid))

(***************************************************************************)
(* The GET handler                                                         *)
(***************************************************************************)

ProxyIdle ==
    /\ pc = "idle"
    /\ qUsername = Null /\ qUser = Null /\ token = FALSE
    /\ username = Null
    /\ gqlCalls = << >>
    /\ gqlResult = "none"
    /\ nodes = << >>
    /\ repoIdx = 0 /\ attempt = 0
    /\ fetches = [r \in 1..MaxRepos |-> 0]
    /\ outstanding = 0
    /\ result = [r \in 1..MaxRepos |-> "none"]
    /\ received = [row \in PunchRows |-> 0]
    /\ activityGrid = ZeroGrid
    /\ activityStats = NoStats
    /\ respStatus = 0
    /\ respBody = {}

\* Variant: the catch of the GraphQL block does not return, and the handler
\* falls through to the 401 response after the if (token) block.
GraphqlFailure_FallThrough == [status |-> 401, body |-> {"error", "message"}]

\* The four responses of the handler: status and the fields of the body.
BadRequest == [status |-> 400, body |-> {"error", "message"}]
Unauthorized == [status |-> 401, body |-> {"error", "message"}]
GraphqlFailure == [status |-> 500, body |-> {"error", "details"}]
Success == [status |-> 200, body |-> {"data"}]

Respond(response) ==
    /\ pc' = "done"
    /\ respStatus' = response.status
    /\ respBody' = response.body

\* Variant: the if (token) test is missing.
EntryBranch_NoTokenCheck(name, tok) ==
    IF ~Truthy(name) THEN "badRequest" ELSE "graphql"

\* Which branch the synchronous head of GET takes for a resolved username
\* and a credential.
EntryBranch(name, tok) ==
    IF ~Truthy(name) THEN "badRequest"
    ELSE IF tok THEN "graphql"
    ELSE "noToken"

\* GET up to its first await: the 400 and 401 answers, or the GraphQL query.
Receive(u, v, tok) ==
    /\ UNCHANGED <<flightVars, clientVars>>
    /\ pc = "idle"
    /\ qUsername' = u /\ qUser' = v /\ token' = tok
    /\ username' = ResolveUsername(u, v)
    /\ LET branch == EntryBranch(ResolveUsername(u, v), tok) IN
         CASE branch = "badRequest" ->
                /\ Respond(BadRequest)
                /\ UNCHANGED gqlCalls
           [] branch = "noToken" ->
                /\ Respond(Unauthorized)
                /\ UNCHANGED gqlCalls
           [] OTHER ->
                /\ pc' = "graphql"
                /\ gqlCalls' = Append(gqlCalls, ResolveUsername(u, v))
                /\ UNCHANGED <<respStatus, respBody>>
    /\ UNCHANGED <<gqlResult, nodes, repoIdx, attempt, fetches, outstanding,
                   result, received, activityGrid, activityStats>>

\* The for-of loop arrives at position idx of topRepos with the grid as given:
\* the next repository's first attempt is issued, or the loop is over and the
\* peak is computed and the 200 response returned.
EnterLoop(ns, idx, grid, out) ==
    /\ repoIdx' = idx
    /\ attempt' = 0
    /\ activityGrid' = grid
    /\ IF idx <= Len(TopRepos(ns))
       THEN /\ pc' = "fetch"
            /\ fetches' = [fetches EXCEPT ![TopRepos(ns)[idx]] = @ + 1]
            /\ outstanding' = out + 1
            /\ UNCHANGED <<activityStats, respStatus, respBody>>
       ELSE /\ Respond(Success)
            /\ activityStats' = CalcPeak(grid)
            /\ outstanding' = out
            /\ UNCHANGED fetches

\* await octokit.graphql(...) resolves with n repositories.
GraphqlReturns(n) ==
    /\ UNCHANGED <<flightVars, clientVars>>
    /\ pc = "graphql"
    /\ gqlResult' = "resolved"
    /\ nodes' = [i \in 1..n |-> i]
    /\ EnterLoop([i \in 1..n |-> i], 1, ZeroGrid, outstanding)
    /\ UNCHANGED <<qUsername, qUser, token, username, gqlCalls, result, received>>

\* await octokit.graphql(...) rejects: the inner catch answers 500.
GraphqlThrows ==
    /\ UNCHANGED <<flightVars, clientVars>>
    /\ pc = "graphql"
    /\ gqlResult' = "rejected"
    /\ Respond(GraphqlFailure)
    /\ UNCHANGED <<qUsername, qUser, token, username, gqlCalls, nodes, repoIdx,
                   attempt, fetches, outstanding, result, received,
                   activityGrid, activityStats>>

\* The punch-card request resolves with status 200 and an array body:
\* fetchStatsWithRetry returns it, GET adds its rows to the grid and the loop
\* moves on.
PunchCardOk(card) ==
    /\ UNCHANGED <<flightVars, clientVars>>
    /\ pc = "fetch"
    /\ result' = [result EXCEPT ![TopRepos(nodes)[repoIdx]] = "ok"]
    /\ received' = [row \in PunchRows |->
                      received[row] + Cardinality({i \in DOMAIN card : card[i] = row})]
    /\ EnterLoop(nodes, repoIdx + 1, ForEachEntry(activityGrid, card), outstanding - 1)
    /\ UNCHANGED <<qUsername, qUser, token, username, gqlCalls, gqlResult, nodes>>

\* Variant: no try / catch around the request.
OnFailedAttempt_NoCatch(kind) == IF kind = "throws" THEN "throw" ELSE "delay"

\* What fetchStatsWithRetry does with an attempt that did not return a table:
\* a status other than 200 or a non-array body falls out of the if, a rejected
\* request is swallowed by the empty catch; all of them go on to the delay.
OnFailedAttempt(kind) == "delay"

\* Variant: the next attempt is issued at once, without the 1-second timer.
PunchCardFails_NoDelay(kind) ==
    /\ UNCHANGED <<flightVars, clientVars>>
    /\ pc = "fetch"
    /\ IF attempt + 1 < Retries
       THEN /\ attempt' = attempt + 1
            /\ fetches' = [fetches EXCEPT ![TopRepos(nodes)[repoIdx]] = @ + 1]
            /\ UNCHANGED <<pc, outstanding>>
       ELSE /\ pc' = "delay"
            /\ outstanding' = outstanding - 1
            /\ UNCHANGED <<attempt, fetches>>
    /\ UNCHANGED <<qUsername, qUser, token, username, gqlCalls, gqlResult, nodes,
                   repoIdx, result, received, activityGrid, activityStats,
                   respStatus, respBody>>

\* The punch-card request resolves with another status or a non-array body,
\* or rejects: the 1-second timer is started.  (An exception that left
\* fetchStatsWithRetry would reach the catch around the GraphQL block.)
PunchCardFails(kind) ==
    /\ UNCHANGED <<flightVars, clientVars>>
    /\ pc = "fetch"
    /\ outstanding' = outstanding - 1
    /\ IF OnFailedAttempt(kind) = "delay"
       THEN /\ pc' = "delay"
            /\ UNCHANGED <<respStatus, respBody>>
       ELSE Respond(GraphqlFailure)
    /\ UNCHANGED <<qUsername, qUser, token, username, gqlCalls, gqlResult, nodes,
                   repoIdx, attempt, fetches, result, received, activityGrid,
                   activityStats>>

\* The timer fires: i++, then the next attempt, or null is returned and the
\* loop moves on with the grid untouched.
DelayElapsed ==
    /\ UNCHANGED <<flightVars, clientVars>>
    /\ pc = "delay"
    /\ IF attempt + 1 < Retries
       THEN /\ attempt' = attempt + 1
            /\ pc' = "fetch"
            /\ fetches' = [fetches EXCEPT ![TopRepos(nodes)[repoIdx]] = @ + 1]
            /\ outstanding' = outstanding + 1
            /\ UNCHANGED <<repoIdx, result, activityGrid, activityStats,
                           respStatus, respBody>>
       ELSE /\ result' = [result EXCEPT ![TopRepos(nodes)[repoIdx]] = "null"]
            /\ EnterLoop(nodes, repoIdx + 1, activityGrid, outstanding)
    /\ UNCHANGED <<qUsername, qUser, token, username, gqlCalls, gqlResult, nodes,
                   received>>

(***************************************************************************)
(* The flight timeline (FlightController, FlightTimeTracker, WrappedContent)*)
(*                                                                         *)
(* Times are in ticks of 1 / TicksPerSec seconds.  Fractions are kept      *)
(* exact: journeyProgress is a numerator over Duration, progress and baseZ *)
(* are numerators over Duration * Duration.                                *)
(***************************************************************************)

NoTime == -1         \* flightStartTime === null

Duration == JOURNEY_DURATION * TicksPerSec
Denom == Duration * Duration
MaxClock == MaxClockSec * TicksPerSec

SECTORS ==
    [launch |-> [z |-> 0,     duration |-> 10],
     sun    |-> [z |-> -400,  duration |-> 14],
     planet |-> [z |-> -1000, duration |-> 14],
     galaxy |-> [z |-> -1600, duration |-> 14],
     stars  |-> [z |-> -2200, duration |-> 14],
     city   |-> [z |-> -2800, duration |-> 14],
     outro  |-> [z |-> -3000, duration |-> 10]]

\* The flight stages in their order along the journey.
StageOrder == <<"launch", "sun", "planet", "galaxy", "stars", "city", "outro">>

StageRank(s) == CHOOSE i \in 1..Len(StageOrder) : StageOrder[i] = s

\* Variant: the progress is not clamped to 1.
JourneyProgress_NoClamp(elapsed) == elapsed

\* Math.min(elapsed / JOURNEY_DURATION, 1), as a numerator over Duration
JourneyProgress(elapsed) == Min(elapsed, Duration)

\* Variant: the ease-out is twice as steep, 1 - 40 * (1 - t) * (1 - t).
EaseProgress_Steep(t) ==
    IF 100 * t > EaseFromPct * Duration
    THEN Denom - 2 * EaseFactor * (Duration - t) * (Duration - t)
    ELSE t * Duration

\* Variant: the ease-out lacks its square, 1 - 20 * (1 - t).
EaseProgress_NoSquare(t) ==
    IF 100 * t > EaseFromPct * Duration
    THEN Denom - EaseFactor * (Duration - t) * Duration
    ELSE t * Duration

\* t > 0.95 ? 1 - 20 * (1 - t) * (1 - t) : t, as a numerator over Denom
EaseProgress(t) ==
    IF 100 * t > EaseFromPct * Duration
    THEN Denom - EaseFactor * (Duration - t) * (Duration - t)
    ELSE t * Duration

\* -progress * TOTAL_DISTANCE, as a numerator over Denom
BaseZ(progress) == -progress * TOTAL_DISTANCE

\* Variant: the threshold itself does not count as reached.
Reached_Strict(baseZ, z) == baseZ < z * Denom

\* baseZ <= z, for baseZ a numerator over Denom
Reached(baseZ, z) == baseZ <= z * Denom

\* The if / else-if chain that determines the current sector.
SelectStage(baseZ) ==
    IF Reached(baseZ, SECTORS.outro.z) THEN "outro"
    ELSE IF Reached(baseZ, SECTORS.city.z + Tolerance) THEN "city"
    ELSE IF Reached(baseZ, SECTORS.stars.z + Tolerance) THEN "stars"
    ELSE IF Reached(baseZ, SECTORS.galaxy.z + Tolerance) THEN "galaxy"
    ELSE IF Reached(baseZ, SECTORS.planet.z + Tolerance) THEN "planet"
    ELSE IF Reached(baseZ, SECTORS.sun.z + Tolerance) THEN "sun"
    ELSE "launch"

\* Variant: every frame counts as a change of stage.
StageChanged_Always(currentStage, previous) == TRUE

\* currentStage !== previousStage.current
StageChanged(currentStage, previous) == currentStage # previous

\* The locals of one processed frame.
FrameAt(elapsed) ==
    LET t == JourneyProgress(elapsed)
        progress == EaseProgress(t)
        baseZ == BaseZ(progress)
    IN [elapsed |-> elapsed, journeyProgress |-> t, progress |-> progress,
        baseZ |-> baseZ, currentStage |-> SelectStage(baseZ)]

NoFrame == [elapsed |-> NoTime, journeyProgress |-> 0, progress |-> 0,
            baseZ |-> 0, currentStage |-> "launch"]

\* The numbers of the rig.  A coordinate is a multiple of 1 / Denom, as baseZ
\* is, and each lerp by 0.01 adds two decimal places: a number is its floor
\* `int` and the digits `frac` after it in base 100, none of them trailing
\* zeros, so that every value is held exactly and has one representation.
\* Where an operand is used more than once it is first bound to a variable
\* (CHOOSE r \in { ... : x \in {operand} } : TRUE), so that it is computed once.
Num(i) == [int |-> i, frac |-> << >>]

\* A coordinate given in world units.
Coord(v) == Num(v * Denom)

Max(a, b) == IF a >= b THEN a ELSE b

\* The position of the last digit of f that is not zero (0: there is none).
LastDigit(f) ==
    CHOOSE n \in 0..Len(f) :
        /\ n = 0 \/ f[n] # 0
        /\ \A i \in (n + 1)..Len(f) : f[i] = 0

\* f without its trailing zeros
Trim(f) == CHOOSE r \in { SubSeq(g, 1, LastDigit(g)) : g \in {f} } : TRUE

\* The sums of the digits of fa and sign * fb, place by place, before any
\* carry.
DigitSums(fa, fb, sign) ==
    [k \in 1..Max(Len(fa), Len(fb)) |->
        (IF k <= Len(fa) THEN fa[k] ELSE 0)
        + sign * (IF k <= Len(fb) THEN fb[k] ELSE 0)]

\* The carry into digit k of a sum whose digit sums, before any carry, are
\* sums[1], sums[2], ... (each between -99 and 198): 1 when a digit past k
\* overflows and every digit between stands at 99, -1 when one borrows and
\* every digit between stands at 0.
CarryInto(sums, k) ==
    IF \E j \in (k + 1)..Len(sums) :
          sums[j] >= 100 /\ \A i \in (k + 1)..(j - 1) : sums[i] = 99
    THEN 1
    ELSE IF \E j \in (k + 1)..Len(sums) :
               sums[j] < 0 /\ \A i \in (k + 1)..(j - 1) : sums[i] = 0
    THEN -1
    ELSE 0

\* a + sign * b for sign 1 or -1
Combine(a, b, sign) ==
    CHOOSE r \in
        { [int |-> x.a.int + sign * x.b.int + CarryInto(x.sums, 0),
           frac |-> Trim([k \in DOMAIN x.sums |->
                            (x.sums[k] + CarryInto(x.sums, k)) % 100])] :
          x \in { [a |-> y.a, b |-> y.b,
                   sums |-> DigitSums(y.a.frac, y.b.frac, sign)] :
                  y \in { [a |-> a, b |-> b] } } } : TRUE

\* a + b and a - b
Add(a, b) == Combine(a, b, 1)
Sub(a, b) == Combine(a, b, -1)

\* Digits k.. of f * n, with the carry into digit k - 1.
RECURSIVE ScaleFrom(_, _, _)
ScaleFrom(f, n, k) ==
    IF k > Len(f) THEN [frac |-> << >>, carry |-> 0]
    ELSE LET rest == ScaleFrom(f, n, k + 1)
             prod == f[k] * n + rest.carry
         IN [frac |-> << prod % 100 >> \o rest.frac, carry |-> prod \div 100]

\* a * n for a natural number n
Scale(a, n) ==
    LET r == ScaleFrom(a.frac, n, 1)
    IN [int |-> a.int * n + r.carry, frac |-> Trim(r.frac)]

\* a * 0.01
Hundredth(a) ==
    CHOOSE r \in { [int |-> x.int \div 100,
                    frac |-> Trim(<< x.int % 100 >> \o x.frac)] :
                   x \in {a} } : TRUE

\* a < b and a <= b
Less(a, b) == Sub(a, b).int < 0
AtMost(a, b) == ~Less(b, a)

\* Math.abs(a)
Abs(a) ==
    CHOOSE r \in { IF x.int < 0 THEN Sub(Num(0), x) ELSE x : x \in {a} } : TRUE

\* new THREE.Vector3(x, y, z), the coordinates in world units
Vector3(x, y, z) == [x |-> Coord(x), y |-> Coord(y), z |-> Coord(z)]

\* const startPos = new THREE.Vector3(0, 5, 20)
startPos == Vector3(0, 5, 20)

\* Variant: the lerp lands on its target at once.
Lerp_Snap(a, b) == b

\* Vector3.lerp(v, 0.01) on one coordinate: this.x += (v.x - this.x) * alpha
Lerp(a, b) == Add(a, Hundredth(Sub(b, a)))

VectorLerp(v, w) ==
    [x |-> Lerp(v.x, w.x), y |-> Lerp(v.y, w.y), z |-> Lerp(v.z, w.z)]

\* The cinematic waypoints: targetX, targetY, lookOffsetX and lookOffsetY of
\* the selected stage.
Waypoint(currentStage) ==
    IF currentStage = "sun"
    THEN [targetX |-> -30, targetY |-> 0, lookOffsetX |-> 40, lookOffsetY |-> 0]
    ELSE IF currentStage = "planet"
    THEN [targetX |-> 30, targetY |-> -10, lookOffsetX |-> -40, lookOffsetY |-> 0]
    ELSE IF currentStage = "galaxy"
    THEN [targetX |-> 0, targetY |-> -15, lookOffsetX |-> 0, lookOffsetY |-> 15]
    ELSE IF currentStage = "stars"
    THEN [targetX |-> 0, targetY |-> 0, lookOffsetX |-> 0, lookOffsetY |-> 0]
    ELSE IF currentStage = "city"
    THEN [targetX |-> 0, targetY |-> 40, lookOffsetX |-> 0, lookOffsetY |-> -40]
    ELSE [targetX |-> 0, targetY |-> 5, lookOffsetX |-> 0, lookOffsetY |-> 0]

\* targetPos.current.set(targetX, targetY, baseZ)
TargetPos(f) ==
    LET w == Waypoint(f.currentStage)
    IN [x |-> Coord(w.targetX), y |-> Coord(w.targetY), z |-> Num(f.baseZ)]

\* const lookTgt = new THREE.Vector3(targetX + lookOffsetX, ...)
LookTgt(f) ==
    LET w == Waypoint(f.currentStage)
    IN [x |-> Coord(w.targetX + w.lookOffsetX),
        y |-> Coord(w.targetY + w.lookOffsetY),
        z |-> Num(f.baseZ + lookAheadZ * Denom)]

FlightIdle ==
    /\ clock = 0
    /\ dataLoaded = FALSE
    /\ started = FALSE
    /\ flightStartTime = NoTime
    /\ stage = "loading"
    /\ previousStage = "launch"
    /\ frame = NoFrame
    /\ reported = << >>
    /\ currentPos = startPos
    /\ currentLookAt = Vector3(0, 5, -50)
    /\ cameraZ = Num(0)
    /\ cameraZUpdates = 0

\* Variant: the controller is never given the start time.
StartTimeProp_Null == NoTime

\* The props WrappedContent passes to FlightController.
IsActive == started /\ stage # "outro"
StartTimeProp == IF started THEN flightStartTime ELSE NoTime

\* load(): the response is OK and holds data.viewer, so setData is called.
\* The flight reads nothing of the profile, which is left out here.
LoadData ==
    /\ UNCHANGED <<proxyVars, clientVars>>
    /\ ~dataLoaded
    /\ dataLoaded' = TRUE
    /\ UNCHANGED <<clock, started, flightStartTime, stage, previousStage,
                   frame, reported, rigVars>>

\* The 500 ms timer of the "Instant Start" effect fires: setStarted(true).
StartTimer ==
    /\ UNCHANGED <<proxyVars, clientVars>>
    /\ dataLoaded /\ ~started
    /\ started' = TRUE
    /\ UNCHANGED <<clock, dataLoaded, flightStartTime, stage, previousStage,
                   frame, reported, rigVars>>

\* Variant: the callback never returns early.
FrameSkipped_Never == FALSE

\* Variant: the callback returns early only while the start time is null.
FrameSkipped_StartOnly == StartTimeProp = NoTime

\* if (!rig.current || !isActive || startTime === null) return
\* (rig.current is the mounted group in every frame).
FrameSkipped == ~IsActive \/ StartTimeProp = NoTime

\* One animation frame, dt ticks after the one before, as far as the timeline
\* and the stage go: the useFrame callback of FlightController down to
\* onStageChange, then the one of FlightTimeTracker.  Both read the props of
\* the latest render, taken here from the page state before the frame; the
\* state they set (setStage, setFlightStartTime) is rendered before the next.
Timeline(dt) ==
    /\ UNCHANGED <<proxyVars, clientVars>>
    /\ dataLoaded
    /\ clock + dt <= MaxClock
    /\ clock' = clock + dt
    /\ IF ~FrameSkipped
       THEN LET f == FrameAt(clock' - StartTimeProp) IN
            /\ frame' = f
            /\ IF StageChanged(f.currentStage, previousStage)
               THEN /\ previousStage' = f.currentStage
                    /\ stage' = f.currentStage
                    /\ reported' = Append(reported, f.currentStage)
               ELSE UNCHANGED <<previousStage, stage, reported>>
       ELSE UNCHANGED <<frame, previousStage, stage, reported>>
    /\ IF started /\ flightStartTime = NoTime
       THEN flightStartTime' = clock'
       ELSE UNCHANGED flightStartTime
    /\ UNCHANGED <<dataLoaded, started>>

\* The rest of the callback of FlightController: the rig is moved towards the
\* waypoint of the frame and its depth is passed to onCameraZUpdate.  The
\* rotation of the rig and the camera, which the callback writes and nothing
\* of the page reads, are left out.
MoveRig(f) ==
    /\ \E moved \in { VectorLerp(currentPos, TargetPos(f)) } :
          /\ currentPos' = moved
          /\ cameraZ' = moved.z
    /\ currentLookAt' = VectorLerp(currentLookAt, LookTgt(f))
    /\ cameraZUpdates' = cameraZUpdates + 1

\* One animation frame: both useFrame callbacks in full.
Frame(dt) ==
    /\ Timeline(dt)
    /\ IF ~FrameSkipped
       THEN \E f \in { FrameAt(clock' - StartTimeProp) } : MoveRig(f)
       ELSE UNCHANGED rigVars

\* One animation frame of a flight whose rig is not followed: the stage is
\* computed from the clock alone and reads nothing of the rig.
StageFrame(dt) ==
    /\ Timeline(dt)
    /\ UNCHANGED rigVars

\* An opacity is a multiple of 1 / (OpacityUnit * Denom), a number as the
\* coordinates are: both ramps divide by a divisor of OpacityUnit.
OpacityUnit == (fadeInDistance - FullDistance) * (fadeOutDistance - FullDistance)

\* return 1 and return 0
Opaque == Num(OpacityUnit * Denom)
Transparent == Num(0)

\* 1 - (distance - 80) / (fadeDistance - 80)
Fade(distance, fadeDistance) ==
    Sub(Opaque, Scale(Sub(distance, Coord(FullDistance)),
                      OpacityUnit \div (fadeDistance - FullDistance)))

\* Variant: the text fades out behind the camera as fast as it fades in.
getTextOpacity_Symmetric(camZ, sectorZ) ==
    LET distance == Abs(Sub(camZ, Coord(sectorZ))) IN
    IF Less(distance, Coord(FullDistance)) THEN Opaque
    ELSE IF Less(distance, Coord(fadeInDistance))
    THEN Fade(distance, fadeInDistance)
    ELSE Transparent

\* getTextOpacity(sectorZ), which reads cameraZ of the render it runs in.
getTextOpacity(camZ, sectorZ) ==
    LET distance == Abs(Sub(camZ, Coord(sectorZ))) IN
    IF Less(distance, Coord(FullDistance)) THEN Opaque
    ELSE IF Less(Coord(sectorZ), camZ) /\ Less(distance, Coord(fadeInDistance))
    THEN Fade(distance, fadeInDistance)
    ELSE IF Less(camZ, Coord(sectorZ)) /\ Less(distance, Coord(fadeOutDistance))
    THEN Fade(distance, fadeOutDistance)
    ELSE Transparent

\* The sectors whose text the page fades.
TextSectors == {"sun", "planet", "galaxy", "stars", "city"}

\* opacity: getTextOpacity(SECTORS.x.z) of the current render
TextOpacity(sector) == getTextOpacity(cameraZ, SECTORS[sector].z)

\* The depths setCameraZ is given when the opacity is followed on its own:
\* around every sector, at and beside the ends of the ramps, in half world
\* units and a little past them (the rig stays between the launch pad and the
\* outro).
CameraDepths ==
    LET Halves == {0, 1, 2, 80, 158, 159, 160, 161, 162, 200, 238, 239, 240,
                   241, 242, 260, 300, 358, 359, 360, 361, 362, 380}
        Half == Denom \div 2
    IN { [int |-> SECTORS[s].z * Denom + side * k * Half, frac |-> f] :
           s \in TextSectors, side \in {-1, 1}, k \in Halves,
           f \in {<< >>, << 25 >>} }

\* onCameraZUpdate={setCameraZ}: the page takes the depth it is given.
SetCameraZ(z) ==
    /\ UNCHANGED <<proxyVars, clientVars>>
    /\ cameraZ' = z
    /\ UNCHANGED <<clock, dataLoaded, started, flightStartTime, stage,
                   previousStage, frame, reported, currentPos, currentLookAt,
                   cameraZUpdates>>

\* The frame intervals of the flights whose rig is followed, in ticks.
RigSteps == {RigStepSec * TicksPerSec, 2 * RigStepSec * TicksPerSec}

\* The elapsed times the timeline is evaluated at on its own: elapsed is
\* state.clock.elapsedTime - startTime for whatever startTime the component is
\* given, a start time later than the clock included.
ElapsedTimes == (-MaxDt)..MaxClock

\* The timeline of the useFrame callback as a function of the elapsed time
\* alone: the locals it computes from `elapsed` down to currentStage.
Evaluate(elapsed) ==
    /\ UNCHANGED <<proxyVars, clientVars>>
    /\ frame' = FrameAt(elapsed)
    /\ UNCHANGED <<clock, dataLoaded, started, flightStartTime, stage,
                   previousStage, reported, rigVars>>

(***************************************************************************)
(* The page's summary statistics (the stats memo of WrappedContent)        *)
(***************************************************************************)

\* JavaScript null where an object is expected.
NullObject == [null |-> TRUE]

\* The repository lists of the profiles are named repo1, repo2, ... in list
\* order; "elsewhere" is a repository the user committed to and does not own.
RepoName(i) == "repo" \o ToString(i)
ForeignName == "elsewhere"

StarValues == {0, 1, 3, 5, 9, 12}
LangNames == {"Go", "Rust"}
CountValues == {0, 4, 7}

SeqsUpTo(S, n) == UNION { [1..k -> S] : k \in 0..n }

\* One RepositoryNode: name, stargazerCount and languages.nodes[].name.
RepositoryNode(i, stars, langs) ==
    [name |-> RepoName(i), stargazerCount |-> stars, languages |-> langs]

\* One entry of commitContributionsByRepository.
Contribution(name, count) == [name |-> name, totalCount |-> count]

\* A ViewerData in which the optional activityStats is missing and
\* commitContributionsByRepository is undefined.
BareViewer(ns) == [nodes |-> ns]

WithContributions(viewer, cs) ==
    [f \in DOMAIN viewer \cup {"contributions"} |->
        IF f = "contributions" THEN cs ELSE viewer[f]]

WithActivityStats(viewer, h) ==
    [f \in DOMAIN viewer \cup {"activityStats"} |->
        IF f = "activityStats" THEN [peakHour |-> h] ELSE viewer[f]]

\* Repository lists that differ in their star counts.
StarLists ==
    { [i \in DOMAIN ss |-> RepositoryNode(i, ss[i], << >>)] :
        ss \in SeqsUpTo(StarValues, MaxOwned) }

\* Profiles without a contribution that names an owned repository.
StarViewers ==
    LET Plain == { BareViewer(ns) : ns \in StarLists } IN
    Plain
    \cup { WithContributions(v, << >>) : v \in Plain }
    \cup { WithContributions(v, << Contribution(ForeignName, 4) >>) : v \in Plain }

\* Profiles that differ in their contributions by repository.
ContributionViewers ==
    LET Lists == { [i \in 1..k |-> RepositoryNode(i, IF i % 2 = 1 THEN 1 ELSE 9, << >>)] :
                     k \in 0..MaxOwned }
        Entries == { Contribution(n, c) :
                       n \in {ForeignName, RepoName(1), RepoName(2)},
                       c \in CountValues }
    IN { WithContributions(BareViewer(ns), cs) :
           ns \in Lists, cs \in SeqsUpTo(Entries, MaxContribs) }

\* Language lists without a repeated name, as GitHub returns them.
LanguageLists ==
    { ls \in SeqsUpTo(LangNames, MaxLangs) :
        \A i, j \in DOMAIN ls : i # j => ls[i] # ls[j] }

\* Profiles that differ in the languages of their repositories.
LanguageViewers ==
    { BareViewer([i \in DOMAIN lss |-> RepositoryNode(i, 0, lss[i])]) :
        lss \in SeqsUpTo(LanguageLists, MaxOwned) }

\* Profiles that differ in their peak hour.
PeakViewers ==
    { WithActivityStats(BareViewer(<< >>), h) : h \in 0..(GridHours - 1) }

Viewers == StarViewers \cup ContributionViewers \cup LanguageViewers \cup PeakViewers

\* Variant: every repository counts as one star.
AddStars_CountRepos(acc, r) == acc + 1

\* (acc, r) => acc + r.stargazerCount
AddStars(acc, r) == acc + r.stargazerCount

\* data.repositories.nodes.reduce(..., 0)
RECURSIVE ReduceStars(_, _)
ReduceStars(ns, acc) ==
    IF ns = << >> THEN acc
    ELSE ReduceStars(Tail(ns), AddStars(acc, Head(ns)))

TotalStarsReceived(ns) == ReduceStars(ns, 0)

\* Variant: a language seen again starts over at 1.
CountLanguage_Reset(counts, name) ==
    IF \E i \in DOMAIN counts : counts[i][1] = name
    THEN [i \in DOMAIN counts |->
            IF counts[i][1] = name THEN <<name, 1>> ELSE counts[i]]
    ELSE Append(counts, <<name, 1>>)

\* langCounts[l.name] = (langCounts[l.name] || 0) + 1, langCounts being the
\* entries of the object in the order their keys were inserted.
CountLanguage(counts, name) ==
    IF \E i \in DOMAIN counts : counts[i][1] = name
    THEN [i \in DOMAIN counts |->
            IF counts[i][1] = name THEN <<name, counts[i][2] + 1>> ELSE counts[i]]
    ELSE Append(counts, <<name, 1>>)

\* r.languages.nodes.forEach(l => ...)
RECURSIVE ForEachLanguage(_, _)
ForEachLanguage(counts, ls) ==
    IF ls = << >> THEN counts
    ELSE ForEachLanguage(CountLanguage(counts, Head(ls)), Tail(ls))

\* data.repositories.nodes.forEach(r => ...)
RECURSIVE LangCounts(_, _)
LangCounts(counts, ns) ==
    IF ns = << >> THEN counts
    ELSE LangCounts(ForEachLanguage(counts, Head(ns).languages), Tail(ns))

\* Array.prototype.sort((a, b) => key(b) - key(a)), keys[i] being the key of
\* items[i]: descending by key, items of equal key keeping their order (the
\* sort is stable).
SortDescending(items, keys) ==
    LET n == Len(items)
        Position(i) ==
            1 + Cardinality({ j \in 1..n :
                    \/ keys[j] > keys[i]
                    \/ (keys[j] = keys[i] /\ j < i) })
    IN [p \in 1..n |-> items[CHOOSE i \in 1..n : Position(i) = p]]

\* b[1] - a[1]
EntryCount(entry) == entry[2]

\* Object.entries(langCounts).sort((a, b) => b[1] - a[1])[0], then
\* topLang ? topLang[0] : 'None'
TopLang(ns) ==
    LET entries == LangCounts(<< >>, ns)
        sorted == SortDescending(entries,
                      [i \in DOMAIN entries |-> EntryCount(entries[i])])
    IN IF sorted = << >> THEN "None" ELSE sorted[1][1]

\* data.repositories.nodes.find(n => n.name === name)
Find(ns, name) ==
    IF \E i \in DOMAIN ns : ns[i].name = name
    THEN ns[CHOOSE i \in DOMAIN ns :
               ns[i].name = name /\ \A j \in 1..(i - 1) : ns[j].name # name]
    ELSE NullObject

\* The body of the forEach over commitContributionsByRepository.
ContributionStep(acc, c, ns) ==
    IF c.totalCount > acc.maxCommits
    THEN LET r == Find(ns, c.name) IN
         [maxCommits |-> c.totalCount,
          mostLovedRepo |-> IF r # NullObject THEN r ELSE acc.mostLovedRepo]
    ELSE acc

RECURSIVE ForEachContribution(_, _, _)
ForEachContribution(acc, cs, ns) ==
    IF cs = << >> THEN acc
    ELSE ForEachContribution(ContributionStep(acc, Head(cs), ns), Tail(cs), ns)

\* let mostLovedRepo = null; let maxCommits = -1; if (...) forEach
ByCommits(viewer) ==
    LET start == [maxCommits |-> -1, mostLovedRepo |-> NullObject]
    IN IF "contributions" \in DOMAIN viewer
       THEN ForEachContribution(start, viewer.contributions, viewer.nodes).mostLovedRepo
       ELSE NullObject

\* Variant: ascending by star count.
StargazerKey_Negated(r) == -r.stargazerCount

\* b.stargazerCount - a.stargazerCount
StargazerKey(r) == r.stargazerCount

\* The fallback is taken: if (!mostLovedRepo && data.repositories.nodes.length > 0)
TakesFallback(viewer) ==
    ByCommits(viewer) = NullObject /\ Len(viewer.nodes) > 0

\* data.repositories.nodes after the memo ran: sort() sorts the array of the
\* profile itself.
NodesAfterStats(viewer) ==
    IF TakesFallback(viewer)
    THEN SortDescending(viewer.nodes,
             [i \in DOMAIN viewer.nodes |-> StargazerKey(viewer.nodes[i])])
    ELSE viewer.nodes

MostLovedRepo(viewer) ==
    IF TakesFallback(viewer)
    THEN NodesAfterStats(viewer)[1]
    ELSE ByCommits(viewer)

\* Variant: noon reads as an afternoon hour.
PeakHourStr_NoNoon(h) ==
    IF h = 0 \/ h = 24 THEN "Midnight"
    ELSE IF h > 12 THEN ToString(h - 12) \o ":00 PM"
    ELSE ToString(h) \o ":00 AM"

\* if (h === 0 || h === 24) ... else if (h === 12) ... else h > 12 ? ... : ...
PeakHourStr(h) ==
    IF h = 0 \/ h = 24 THEN "Midnight"
    ELSE IF h = 12 THEN "Noon"
    ELSE IF h > 12 THEN ToString(h - 12) \o ":00 PM"
    ELSE ToString(h) \o ":00 AM"

\* if (h >= 5 && h < 12) ... else if (h >= 12 && h < 17) ... else if ...
ActiveTime(h) ==
    IF h >= 5 /\ h < 12 THEN "Morning Bird"
    ELSE IF h >= 12 /\ h < 17 THEN "Afternoon Builder"
    ELSE IF h >= 17 /\ h < 22 THEN "Evening Hacker"
    ELSE "Night Owl"

\* The value of the memo for a profile.
Stats(viewer) ==
    LET hasPeak == "activityStats" \in DOMAIN viewer IN
    [totalStarsReceived |-> TotalStarsReceived(viewer.nodes),
     topLang |-> TopLang(viewer.nodes),
     favRepo |-> MostLovedRepo(viewer),
     activeTime |-> IF hasPeak THEN ActiveTime(viewer.activityStats.peakHour)
                    ELSE "Day Walker",
     peakHourStr |-> IF hasPeak THEN PeakHourStr(viewer.activityStats.peakHour)
                     ELSE "12:00 PM"]

\* The profile as the memo leaves it.
AfterStats(viewer) == [viewer EXCEPT !.nodes = NodesAfterStats(viewer)]

(***************************************************************************)
(* The page's load effect                                                  *)
(***************************************************************************)

\* searchParams.get('user') of the page: absent, empty, or a login.
UserParams == {Null, "", "octocat"}

\* const url = user ? `/api/wrapped?username=${user}` : '/api/wrapped'
Url(user) ==
    IF Truthy(user) THEN "/api/wrapped?username=" \o user ELSE "/api/wrapped"

\* The JSON bodies a response can carry: data.viewer, or an error with or
\* without a message.
ViewerBody(viewer) == [viewer |-> viewer]
ErrorBodies ==
    { [error |-> "Username required",
       message |-> "Please provide a username parameter."],
      [error |-> "Configuration Error",
       message |-> "GITHUB_TOKEN is missing. Please add it to .env.local for real data."],
      [error |-> "Failed to fetch real data",
       details |-> "GraphQL query failed. Please ensure GITHUB_TOKEN is valid."],
      [error |-> "Bad Gateway", message |-> ""] }

\* What `await fetch(url)` and `await res.json()` give when neither throws.
Responses(viewers) ==
    { [ok |-> ok, json |-> body] :
        ok \in BOOLEAN,
        body \in ErrorBodies \cup { ViewerBody(v) : v \in viewers } }

\* The profiles of the load specification.
SampleViewers ==
    { BareViewer(<< RepositoryNode(1, 3, << >>), RepositoryNode(2, 9, << >>) >>),
      WithActivityStats(BareViewer(<< >>), 14) }

Thrown == [thrown |-> TRUE]
NoResponse == [none |-> TRUE]

\* Variant: the message of the body is never shown.
ErrorMessage_Generic(json) == "Failed to load"

\* json.message || "Failed to load"
ErrorMessage(json) ==
    IF "message" \in DOMAIN json /\ Truthy(json.message)
    THEN json.message
    ELSE "Failed to load"

ClientIdle ==
    /\ loads = 0
    /\ requests = << >>
    /\ pending = {}
    /\ lastResponse = NoResponse
    /\ data = NullObject
    /\ error = Null
    /\ pageStats = NullObject

\* The load effect runs (the page mounted or searchParams changed): load()
\* builds the URL and calls fetch.
Load(user) ==
    /\ UNCHANGED <<proxyVars, flightVars>>
    /\ loads < MaxLoads
    /\ loads' = loads + 1
    /\ requests' = Append(requests, Url(user))
    /\ pending' = pending \cup {Len(requests) + 1}
    /\ UNCHANGED <<lastResponse, data, error, pageStats>>

\* fetch and res.json() of request i resolve with `res`; load() calls setData
\* or setError, and the render that follows setData runs the stats memo.
FetchSettles(i, res) ==
    /\ UNCHANGED proxyVars
    /\ i \in pending
    /\ pending' = pending \ {i}
    /\ lastResponse' = res
    /\ IF res.ok /\ "viewer" \in DOMAIN res.json
       THEN /\ data' = AfterStats(res.json.viewer)
            /\ pageStats' = Stats(res.json.viewer)
            /\ dataLoaded' = TRUE
            /\ UNCHANGED error
       ELSE /\ error' = ErrorMessage(res.json)
            /\ UNCHANGED <<data, pageStats, dataLoaded>>
    /\ UNCHANGED <<loads, requests>>
    /\ UNCHANGED <<clock, started, flightStartTime, stage, previousStage,
                   frame, reported, rigVars>>

\* fetch of request i rejects, or res.json() throws on its body: the catch
\* block calls setError.
FetchThrows(i) ==
    /\ UNCHANGED <<proxyVars, flightVars>>
    /\ i \in pending
    /\ pending' = pending \ {i}
    /\ lastResponse' = Thrown
    /\ error' = "Connection failed"
    /\ UNCHANGED <<loads, requests, data, pageStats>>

\* One load, answered with a profile.
NextStats ==
    \/ \E user \in UserParams : loads = 0 /\ Load(user)
    \/ \E i \in pending : \E v \in Viewers :
          FetchSettles(i, [ok |-> TRUE, json |-> ViewerBody(v)])

\* Several loads, with every outcome of their fetches.
NextClient ==
    \/ \E user \in UserParams : Load(user)
    \/ \E i \in pending : \E res \in Responses(SampleViewers) : FetchSettles(i, res)
    \/ \E i \in pending : FetchThrows(i)

NextFlight ==
    \/ LoadData
    \/ StartTimer
    \/ \E dt \in 1..MaxDt : StageFrame(dt)

NextRig ==
    \/ LoadData
    \/ StartTimer
    \/ \E dt \in RigSteps : Frame(dt)

InitProxy == ProxyIdle /\ FlightIdle /\ ClientIdle

InitFlight == ProxyIdle /\ FlightIdle /\ ClientIdle

SpecFlight == InitFlight /\ [][NextFlight]_vars

InitRig == ProxyIdle /\ FlightIdle /\ ClientIdle

SpecRig == InitRig /\ [][NextRig]_vars

\* The flight under its scheduling: the 500 ms timer of the start effect fires,
\* and the render loop calls the useFrame callbacks frame after frame (up to
\* the end of the clock that is followed).
SpecRigLive ==
    /\ InitRig /\ [][NextRig]_vars
    /\ WF_vars(StartTimer)
    /\ WF_vars(\E dt \in RigSteps : Frame(dt))

NextOpacity == \E z \in CameraDepths : SetCameraZ(z)

InitOpacity == ProxyIdle /\ FlightIdle /\ ClientIdle

SpecOpacity == InitOpacity /\ [][NextOpacity]_vars

NextTimeline == \E elapsed \in ElapsedTimes : Evaluate(elapsed)

InitTimeline == ProxyIdle /\ FlightIdle /\ ClientIdle

SpecTimeline == InitTimeline /\ [][NextTimeline]_vars

InitClient == ProxyIdle /\ FlightIdle /\ ClientIdle

SpecStats == InitClient /\ [][NextStats]_vars

SpecClient == InitClient /\ [][NextClient]_vars

\* Every request, with one punch-card table.
NextProxy ==
    \/ \E u \in ParamValues, v \in ParamValues, tok \in BOOLEAN : Receive(u, v, tok)
    \/ \E n \in 0..MaxRepos : GraphqlReturns(n)
    \/ GraphqlThrows
    \/ \E card \in OneCard : PunchCardOk(card)
    \/ \E kind \in FailureKinds : PunchCardFails(kind)
    \/ DelayElapsed

SpecProxy == InitProxy /\ [][NextProxy]_vars

\* One request that reaches the punch-card loop, with every punch-card table.
NextPunch ==
    \/ \E u \in GoodParams : Receive(u, Null, TRUE)
    \/ \E n \in 0..MaxRepos : GraphqlReturns(n)
    \/ GraphqlThrows
    \/ \E card \in PunchCards : PunchCardOk(card)
    \/ \E kind \in FailureKinds : PunchCardFails(kind)
    \/ DelayElapsed

SpecPunch == InitProxy /\ [][NextPunch]_vars

(***************************************************************************)
(* Properties of the stats proxy                                           *)
(***************************************************************************)

Repos == 1..MaxRepos

\* A query parameter or username that is present and not empty.
Supplied(v) == v \notin {Null, ""}
Days == 0..(GridDays - 1)
Hours == 0..(GridHours - 1)

RECURSIVE SumFetches(_)
SumFetches(r) == IF r = 0 THEN 0 ELSE fetches[r] + SumFetches(r - 1)

NoUpstreamRequest == gqlCalls = << >> /\ \A r \in Repos : fetches[r] = 0

\* The repositories the loop samples: the first five of the returned list.
Sampled == { nodes[i] : i \in 1..Min(TopRepoCount, Len(nodes)) }

\* The count the rows received for cell (d, h) add up to.
RECURSIVE SumRows(_)
SumRows(rows) ==
    IF rows = {} THEN 0
    ELSE LET row == CHOOSE x \in rows : TRUE
         IN row[3] * received[row] + SumRows(rows \ {row})

CellSum(d, h) == SumRows({row \in PunchRows : row[1] = d /\ row[2] = h})

\* C1: a request with neither a non-empty `username` nor a non-empty `user`
\* is answered 400 with a `message` field, and no upstream request is issued.
C1_MissingUsername400 ==
    (pc # "idle" /\ ~Supplied(qUsername) /\ ~Supplied(qUser))
        => /\ pc = "done"
           /\ respStatus = 400
           /\ "message" \in respBody
           /\ NoUpstreamRequest

C1_Witness ==
    pc = "done" /\ qUsername = Null /\ qUser = "" /\ token

\* C2 as stated: without a credential every request is answered 401.
C2_Original ==
    (pc # "idle" /\ ~token) => (pc = "done" /\ respStatus = 401)

\* C2 as amended: without a credential a request that carries a username is
\* answered 401 with no upstream request; one that carries none is answered
\* 400, the username being checked first.
C2_NoCredential ==
    (pc # "idle" /\ ~token)
        => /\ pc = "done"
           /\ NoUpstreamRequest
           /\ Supplied(username) => respStatus = 401
           /\ ~Supplied(username) => respStatus = 400

C2_Witness ==
    pc = "done" /\ ~token /\ qUsername = "" /\ qUser = "hubot" /\ respStatus = 401

C4_FailuresAbsorbed ==
    /\ [](gqlResult = "resolved" =>
            /\ pc \in {"fetch", "delay", "done"}
            /\ pc = "done" => (respStatus = 200 /\ respBody = {"data"})
            /\ pc # "done" => respStatus = 0)
    /\ [][\A r \in Repos :
            (result[r] = "none" /\ result'[r] = "null")
                => activityGrid' = activityGrid]_vars

C4_Witness ==
    /\ pc = "done" /\ respStatus = 200
    /\ \E r \in Repos : result[r] = "null"
    /\ \E r \in Repos : result[r] = "ok"
    /\ activityGrid # ZeroGrid

\* C5: punch-card fetches go to the first 5 repositories only, at most 3 to
\* each, none to a repository after its table arrived, at most 15 in all.
C5_BoundedFetches ==
    /\ [](/\ \A r \in Repos : fetches[r] <= 3
          /\ \A r \in Repos : fetches[r] > 0 => r \in Sampled
          /\ Cardinality({r \in Repos : fetches[r] > 0}) <= 5
          /\ SumFetches(MaxRepos) <= 15)
    /\ [][\A r \in Repos : result[r] # "none" => fetches'[r] = fetches[r]]_vars

C5_Witness ==
    /\ pc = "done" /\ Len(nodes) > 5
    /\ SumFetches(MaxRepos) = 15
    /\ \E r \in Repos : result[r] = "ok"

\* C6: every cell of the grid is the sum of the counts of the rows received
\* for it from the repositories whose fetch succeeded; rows [0,14,5] and
\* [0,14,3] alone give cell (0,14) = 8 and the peak {0, 14, 8}.
C6_GridIsSum ==
    /\ \A d \in Days, h \in Hours : activityGrid[d][h] = CellSum(d, h)
    /\ (/\ pc = "done" /\ respStatus = 200
        /\ received = [row \in PunchRows |->
                         IF row \in {<<0, 14, 5>>, <<0, 14, 3>>} THEN 1 ELSE 0])
         => /\ activityGrid[0][14] = 8
            /\ activityStats = [peakDay |-> 0, peakHour |-> 14, maxCommits |-> 8]

C6_Witness ==
    /\ pc = "done" /\ respStatus = 200
    /\ received[<<0, 14, 5>>] = 1 /\ received[<<0, 14, 3>>] = 1
    /\ received[<<3, 2, 5>>] = 0
    /\ Cardinality({r \in Repos : result[r] = "ok"}) = 2

\* C7: for a grid with a positive cell, maxCommits is the largest cell and
\* (peakDay, peakHour) the first cell holding it, days outermost and hours
\* innermost.
C7_FirstMaximum ==
    (/\ pc = "done" /\ respStatus = 200
     /\ \E d \in Days, h \in Hours : activityGrid[d][h] > 0)
        => LET p == activityStats IN
           /\ p.peakDay \in Days /\ p.peakHour \in Hours
           /\ p.maxCommits = activityGrid[p.peakDay][p.peakHour]
           /\ \A d \in Days, h \in Hours :
                /\ activityGrid[d][h] <= p.maxCommits
                /\ activityGrid[d][h] = p.maxCommits
                     => (d > p.peakDay \/ (d = p.peakDay /\ h >= p.peakHour))

C7_Witness ==
    /\ pc = "done" /\ respStatus = 200
    /\ activityGrid[0][14] = activityGrid[3][2]
    /\ activityGrid[0][14] > 0

\* C8: an all-zero grid gives exactly {peakDay: 3, peakHour: 14, maxCommits: 1}.
C8_EmptyGridDefault ==
    (pc = "done" /\ respStatus = 200 /\ activityGrid = ZeroGrid)
        => activityStats = [peakDay |-> 3, peakHour |-> 14, maxCommits |-> 1]

C8_Witness ==
    /\ pc = "done" /\ respStatus = 200 /\ activityGrid = ZeroGrid
    /\ \E r \in Repos : result[r] = "null"
    /\ \E r \in Repos : result[r] = "ok"

(***************************************************************************)
(* Properties of the flight timeline                                       *)
(***************************************************************************)

\* A frame was processed by FlightController in this step.
FrameProcessed == frame' # frame

\* C9: at every elapsed time of at least the journey duration (90 s) the
\* journey progress and the eased progress are exactly 1 and the selected
\* stage is 'outro'.
C9_ClampsAtEnd ==
    frame.elapsed >= JOURNEY_DURATION * TicksPerSec
        => /\ frame.journeyProgress = Duration
           /\ frame.progress = Denom
           /\ frame.baseZ = SECTORS.outro.z * Denom
           /\ frame.currentStage = "outro"

C9_Witness ==
    /\ frame.elapsed > JOURNEY_DURATION * TicksPerSec + TicksPerSec
    /\ flightStartTime > 0

\* C10: over frames with non-decreasing elapsed time the selected stage never
\* moves back in the order launch, sun, planet, galaxy, stars, city, outro, and
\* the stages reported through onStageChange are strictly later each time (none
\* after a later one, none twice).
C10_StagesMonotone ==
    /\ [](\A i \in DOMAIN reported, j \in DOMAIN reported :
            i < j => StageRank(reported[i]) < StageRank(reported[j]))
    /\ [][FrameProcessed =>
            /\ frame'.elapsed >= frame.elapsed
            /\ StageRank(frame'.currentStage) >= StageRank(frame.currentStage)]_vars

C10_Witness ==
    /\ reported = <<"sun", "planet", "galaxy", "stars", "city", "outro">>
    /\ frame.elapsed > Duration

\* C18: the page-level stage takes the values launch, sun, planet, galaxy,
\* stars, city, outro in that order: it is 'launch' before it is 'sun', and a
\* flight that reported every later stage went through all seven.
C18_PageStagesInOrder ==
    /\ stage # "loading" => reported[1] = "launch"
    /\ (stage = "outro" /\ Len(reported) >= Len(StageOrder) - 1)
            => reported = StageOrder

\* C19: in every processed frame onStageChange is called exactly when the
\* selected stage differs from the one selected in the frame processed before
\* ('launch' before the first), once and with the stage just selected; no
\* other step calls it, and it is never called twice in a row with one stage.
C19_ReportedOnChange ==
    /\ [](\A i \in 1..(Len(reported) - 1) : reported[i] # reported[i + 1])
    /\ [][/\ FrameProcessed =>
                /\ reported' # reported
                      <=> frame'.currentStage # frame.currentStage
                /\ reported' # reported
                      => /\ reported' = Append(reported, frame'.currentStage)
                         /\ stage' = frame'.currentStage
                /\ reported' = reported => stage' = stage
          /\ ~FrameProcessed => reported' = reported]_vars

C19_Witness ==
    /\ reported = <<"sun">>
    /\ frame.currentStage = "sun"
    /\ frame.elapsed >= 23 * TicksPerSec

\* The stages that have a threshold, and the depths next to the thresholds.
LaterStages == {"sun", "planet", "galaxy", "stars", "city", "outro"}
AtOrAfter(selected, s) == StageRank(selected) >= StageRank(s)
NearThresholds ==
    { (SECTORS[s].z + off) * Denom + d :
        s \in LaterStages, off \in {0, 100}, d \in {-1, 0, 1} }

Requested == IF Supplied(qUsername) THEN qUsername ELSE qUser

\* C16: `user` is an alias of `username`: the handler works on the value of
\* `username` when that is not empty and on the value of `user` otherwise,
\* and that value alone decides the 400 answer and the login that is queried.
C16_UserAlias ==
    pc # "idle"
        => /\ username = Requested
           /\ (~Supplied(qUsername) /\ Supplied(qUser)) => username = qUser
           /\ (Supplied(qUsername) /\ Supplied(qUser)) => username = qUsername
           /\ (pc = "done" /\ respStatus = 400) <=> ~Supplied(Requested)
           /\ gqlCalls \in {<< >>, <<Requested>>}
           /\ gqlResult # "none" => gqlCalls = <<Requested>>

C16_Witness ==
    /\ pc = "done" /\ respStatus = 200
    /\ qUsername = "" /\ qUser = "hubot"
    /\ gqlCalls = <<"hubot">>

(***************************************************************************)
(* Properties of the summary statistics                                    *)
(***************************************************************************)

\* The last fetch delivered a profile, and the memo holds its statistics.
HasProfile ==
    /\ pageStats # NullObject
    /\ "ok" \in DOMAIN lastResponse
    /\ lastResponse.ok
    /\ "viewer" \in DOMAIN lastResponse.json

\* The profile as the fetch delivered it, and its repository list.
Fetched == lastResponse.json.viewer
Owned == Fetched.nodes

StarsOf(ns) == [i \in DOMAIN ns |-> ns[i].stargazerCount]

RECURSIVE SumTo(_, _)
SumTo(f, n) == IF n = 0 THEN 0 ELSE f[n] + SumTo(f, n - 1)

\* C11: totalStarsReceived is the sum of stargazerCount over the repository
\* list of the profile, 0 for an empty list and 17 for the counts [5, 0, 12].
C11_TotalStars ==
    HasProfile
        => /\ pageStats.totalStarsReceived = SumTo(StarsOf(Owned), Len(Owned))
           /\ Owned = << >> => pageStats.totalStarsReceived = 0
           /\ StarsOf(Owned) = <<5, 0, 12>> => pageStats.totalStarsReceived = 17

C11_Witness ==
    HasProfile /\ StarsOf(Owned) = <<5, 0, 12>> /\ pageStats.totalStarsReceived = 17

\* The entries of commitContributionsByRepository that name an owned
\* repository.
OwnedEntries ==
    IF "contributions" \in DOMAIN Fetched
    THEN { i \in DOMAIN Fetched.contributions :
             \E k \in DOMAIN Owned : Owned[k].name = Fetched.contributions[i].name }
    ELSE {}

\* C12: when an entry of commitContributionsByRepository names an owned
\* repository, the most-loved repository is an owned repository whose entry
\* has the highest count among the entries that name owned repositories,
\* whatever the other entries are and wherever they stand.
C12_MostLovedByCommits ==
    (HasProfile /\ OwnedEntries # {})
        => \E i \in OwnedEntries :
              /\ pageStats.favRepo # NullObject
              /\ pageStats.favRepo.name = Fetched.contributions[i].name
              /\ \A j \in OwnedEntries :
                    Fetched.contributions[j].totalCount
                        <= Fetched.contributions[i].totalCount

\* C13: when no entry of commitContributionsByRepository names an owned
\* repository, the most-loved repository is the first repository of the list
\* that has the highest stargazerCount (the 9-star one for [3, 9, 1]), and
\* there is none when the list is empty.
C13_MostLovedByStars ==
    (HasProfile /\ OwnedEntries = {})
        => /\ Owned = << >> => pageStats.favRepo = NullObject
           /\ Owned # << >> =>
                \E k \in DOMAIN Owned :
                    /\ pageStats.favRepo = Owned[k]
                    /\ \A j \in DOMAIN Owned :
                          Owned[j].stargazerCount <= Owned[k].stargazerCount
                    /\ \A j \in 1..(k - 1) :
                          Owned[j].stargazerCount < Owned[k].stargazerCount
           /\ StarsOf(Owned) = <<3, 9, 1>> => pageStats.favRepo = Owned[2]

C13_Witness ==
    /\ HasProfile
    /\ "contributions" \in DOMAIN Fetched
    /\ Fetched.contributions = << >>
    /\ StarsOf(Owned) = <<3, 9, 1>>
    /\ pageStats.favRepo.stargazerCount = 9

\* The number of repositories a language is attached to, and the place where
\* it is met first: <<repository, position in its languages>>.
Attached(name) ==
    Cardinality({ k \in DOMAIN Owned :
        \E p \in DOMAIN Owned[k].languages : Owned[k].languages[p] = name })

Has(k, name) ==
    \E p \in DOMAIN Owned[k].languages : Owned[k].languages[p] = name

FirstMet(name) ==
    LET k == CHOOSE i \in DOMAIN Owned :
                 Has(i, name) /\ \A j \in 1..(i - 1) : ~Has(j, name)
        ls == Owned[k].languages
    IN <<k, CHOOSE p \in DOMAIN ls :
                ls[p] = name /\ \A q \in 1..(p - 1) : ls[q] # name>>

Earlier(a, b) == a[1] < b[1] \/ (a[1] = b[1] /\ a[2] < b[2])

AttachedNames ==
    UNION { { Owned[k].languages[p] : p \in DOMAIN Owned[k].languages } :
              k \in DOMAIN Owned }

\* C14: the top language is a language attached to the most repositories,
\* among those the one met first when the repositories are read in list order
\* and their languages in order; it is 'None' when no repository has one.
C14_TopLanguage ==
    HasProfile
        => /\ AttachedNames = {} => pageStats.topLang = "None"
           /\ AttachedNames # {} =>
                /\ pageStats.topLang \in AttachedNames
                /\ \A other \in AttachedNames \ {pageStats.topLang} :
                      \/ Attached(other) < Attached(pageStats.topLang)
                      \/ /\ Attached(other) = Attached(pageStats.topLang)
                         /\ Earlier(FirstMet(pageStats.topLang), FirstMet(other))

C14_Witness ==
    /\ HasProfile
    /\ Len(Owned) = 3
    /\ Owned[1].languages = <<"Rust", "Go">>
    /\ Owned[2].languages = <<"Go">>
    /\ Owned[3].languages = <<"Rust">>
    /\ pageStats.topLang = "Rust"

\* C15: for every peak hour 0..23 the label is 'Morning Bird' for 5..11,
\* 'Afternoon Builder' for 12..16, 'Evening Hacker' for 17..21 and 'Night Owl'
\* for the rest; the hour text is 'Midnight' for 0, 'Noon' for 12, '<h>:00 AM'
\* for 1..11 and '<h-12>:00 PM' for 13..23.
C15_PeakTime ==
    (HasProfile /\ "activityStats" \in DOMAIN Fetched)
        => LET h == Fetched.activityStats.peakHour IN
           /\ h \in 0..23
           /\ pageStats.activeTime =
                CASE h \in 5..11 -> "Morning Bird"
                  [] h \in 12..16 -> "Afternoon Builder"
                  [] h \in 17..21 -> "Evening Hacker"
                  [] h \in (22..23) \cup (0..4) -> "Night Owl"
           /\ pageStats.peakHourStr =
                CASE h = 0 -> "Midnight"
                  [] h = 12 -> "Noon"
                  [] h \in 1..11 -> ToString(h) \o ":00 AM"
                  [] h \in 13..23 -> ToString(h - 12) \o ":00 PM"
           /\ h = 9 => pageStats.peakHourStr = "9:00 AM"
           /\ h = 23 => pageStats.peakHourStr = "11:00 PM"

C15_Witness ==
    /\ HasProfile
    /\ "activityStats" \in DOMAIN Fetched
    /\ Fetched.activityStats.peakHour = 12
    /\ pageStats.activeTime = "Afternoon Builder"
    /\ pageStats.peakHourStr = "Noon"

(***************************************************************************)
(* Properties of the load effect                                           *)
(***************************************************************************)

\* A fetch settles in this step.
Settled == pending' # pending /\ pending' \subseteq pending

\* C17: every load issues exactly one fetch and none is issued again after it
\* settled; a throwing fetch or body shows 'Connection failed'; a response
\* that is not OK or has no data.viewer shows the message of its body, or
\* 'Failed to load' without one; data is set only from an OK response that
\* holds data.viewer.
C17_LoadOutcome ==
    /\ [](/\ Len(requests) = loads
          /\ pending \subseteq DOMAIN requests)
    /\ [][/\ requests' # requests => (loads' = loads + 1 /\ pending \subseteq pending')
          /\ Settled =>
                /\ requests' = requests
                /\ lastResponse' = Thrown
                      => (error' = "Connection failed" /\ data' = data)
                /\ lastResponse' # Thrown =>
                      LET res == lastResponse'
                          good == res.ok /\ "viewer" \in DOMAIN res.json
                      IN /\ good => (data' # NullObject /\ error' = error)
                         /\ ~good =>
                               /\ data' = data
                               /\ error' = IF "message" \in DOMAIN res.json
                                               /\ res.json.message # ""
                                            THEN res.json.message
                                            ELSE "Failed to load"
          /\ data' # data =>
                /\ Settled
                /\ lastResponse' # Thrown
                /\ lastResponse'.ok
                /\ "viewer" \in DOMAIN lastResponse'.json]_vars

C17_Witness ==
    /\ loads = 2 /\ Len(requests) = 2 /\ pending = {}
    /\ data # NullObject
    /\ error = "Please provide a username parameter."
    /\ lastResponse # Thrown /\ ~lastResponse.ok

(***************************************************************************)
(* The sector table, the profile under the memo, the order of the fetches  *)
(***************************************************************************)

\* The time window the sector table documents for a stage, in seconds: the
\* durations of the stages before it, and its own on top.
RECURSIVE DurationsBefore(_)
DurationsBefore(rank) ==
    IF rank = 1 THEN 0
    ELSE DurationsBefore(rank - 1) + SECTORS[StageOrder[rank - 1]].duration

WindowStart(s) == DurationsBefore(StageRank(s))
WindowEnd(s) == WindowStart(s) + SECTORS[s].duration

\* C21: the stage selected at an elapsed time of the flight lies in the window
\* the sector table documents for it (launch 0-10 s, sun 10-24 s, planet
\* 24-38 s, galaxy 38-52 s, stars 52-66 s, city 66-80 s, outro 80-90 s), the
\* durations adding up to the 90 s of the journey.
C21_DocumentedWindows ==
    /\ WindowEnd("outro") = JOURNEY_DURATION
    /\ (frame # NoFrame /\ frame.elapsed <= Duration)
          => /\ WindowStart(frame.currentStage) * TicksPerSec <= frame.elapsed
             /\ frame.elapsed <= WindowEnd(frame.currentStage) * TicksPerSec

\* C26: the memo leaves the profile as the fetch delivered it: the repository
\* list holds the same elements in the same order.
C26_ProfileUntouched ==
    HasProfile => (data.nodes = Owned /\ data = Fetched)

\* C27: at most one punch-card fetch is outstanding; a fetch is issued only for
\* the first sampled repository that has no result yet, every repository
\* before it having one and none after it having been asked for; a repeated
\* attempt is issued only by the 1-second timer, with no fetch outstanding.
C27_SequentialFetches ==
    /\ [](/\ outstanding \in {0, 1}
          /\ outstanding = 1 <=> pc = "fetch")
    /\ [][\A r \in Repos :
            fetches'[r] # fetches[r]
                => /\ fetches'[r] = fetches[r] + 1
                   /\ outstanding' = 1
                   /\ r <= TopRepoCount /\ r <= Len(nodes')
                   /\ result'[r] = "none"
                   /\ \A q \in Repos :
                         /\ q < r => result'[q] # "none"
                         /\ q > r => fetches'[q] = 0
                         /\ q # r => fetches'[q] = fetches[q]
                   /\ fetches[r] > 0 => (pc = "delay" /\ outstanding = 0)]_vars

C27_Witness ==
    /\ pc = "fetch" /\ outstanding = 1
    /\ repoIdx = 2 /\ attempt = 1
    /\ result[1] = "null" /\ fetches[1] = 3 /\ fetches[2] = 2

(***************************************************************************)
(* The timeline as a function of the elapsed time                          *)
(***************************************************************************)

\* A timeline has been computed.
Evaluated == frame # NoFrame

EaseOut(t) == Denom - EaseFactor * (Duration - t) * (Duration - t)

\* C23: the eased progress is t up to 0.95 and the ease-out from there on, the
\* two agreeing at 0.95; it is 1 at t = 1; of two timelines the one with the
\* larger journey progress has the larger or equal eased progress, and the one
\* with the larger elapsed time the lower or equal base depth.
C23_EaseMonotone ==
    /\ [](Evaluated /\ frame.journeyProgress >= 0 =>
             LET t == frame.journeyProgress IN
             /\ 100 * t <= EaseFromPct * Duration => frame.progress = t * Duration
             /\ 100 * t >= EaseFromPct * Duration => frame.progress = EaseOut(t)
             /\ t = Duration => frame.progress = Denom)
    /\ [][Evaluated =>
             /\ (0 <= frame.journeyProgress
                    /\ frame.journeyProgress <= frame'.journeyProgress)
                 => frame.progress <= frame'.progress
             /\ frame.elapsed <= frame'.elapsed => frame'.baseZ <= frame.baseZ]_vars

\* A timeline inside the ease-out, where the eased progress runs ahead of t.
C23_Witness ==
    /\ Evaluated
    /\ 100 * frame.journeyProgress > EaseFromPct * Duration
    /\ frame.journeyProgress < Duration
    /\ frame.progress > frame.journeyProgress * Duration
    /\ frame.progress < Denom

(***************************************************************************)
(* The opacity of the sector texts                                         *)
(***************************************************************************)

\* The distance |c - z| of a camera depth from a sector, and the sides.
DistanceTo(c, sector) == Abs(Sub(c, Coord(SECTORS[sector].z)))
Approaching(c, sector) == Less(Coord(SECTORS[sector].z), c)
Departing(c, sector) == Less(c, Coord(SECTORS[sector].z))
Within(d, from, to) == AtMost(Coord(from), d) /\ Less(d, Coord(to))

\* C24: with d = |cameraZ - z| the opacity of a sector text is 1 for d < 80,
\* 1 - (d - 80) / 40 while approaching (cameraZ > z) with 80 <= d < 120,
\* 1 - (d - 80) / 100 while departing (cameraZ < z) with 80 <= d < 180, and 0
\* otherwise; it lies in [0, 1], and of two camera depths on the same side of
\* the sector the farther one has the lower or equal opacity.
C24_TextOpacity ==
    /\ [](\A s \in TextSectors :
            LET d == DistanceTo(cameraZ, s)
                o == TextOpacity(s)
                rising == Approaching(cameraZ, s) /\ Within(d, 80, 120)
                falling == Departing(cameraZ, s) /\ Within(d, 80, 180)
            IN /\ Less(d, Coord(80)) => o = Opaque
               /\ rising => Hundredth(Sub(Opaque, o)) = Sub(d, Coord(80))
               /\ falling => Sub(Opaque, o) = Scale(Sub(d, Coord(80)), 40)
               /\ (~Less(d, Coord(80)) /\ ~rising /\ ~falling) => o = Transparent
               /\ AtMost(Transparent, o) /\ AtMost(o, Opaque))
    /\ [][\A s \in TextSectors :
            (/\ \/ Approaching(cameraZ, s) /\ Approaching(cameraZ', s)
                \/ Departing(cameraZ, s) /\ Departing(cameraZ', s)
             /\ AtMost(DistanceTo(cameraZ, s), DistanceTo(cameraZ', s)))
            => AtMost(getTextOpacity(cameraZ', SECTORS[s].z), TextOpacity(s))]_vars

\* The camera is 130 units behind a sector, whose text is half faded out.
C24_Witness ==
    \E s \in TextSectors :
        /\ Departing(cameraZ, s)
        /\ DistanceTo(cameraZ, s) = Coord(130)
        /\ Scale(TextOpacity(s), 2) = Opaque

(***************************************************************************)
(* The rig                                                                 *)
(***************************************************************************)

\* A step that renders an animation frame.
FrameRendered == clock' # clock

\* C25: a frame rendered while the active flag is false or the start time is
\* null calls neither onStageChange nor onCameraZUpdate and leaves the smoothed
\* position, the smoothed look-at, the previous-stage marker and the page's
\* stage and cameraZ as they are; as long as the data is not loaded or the
\* start time is not set, rig and page are as they were constructed.
C25_IdleFrames ==
    /\ [][(FrameRendered /\ (~IsActive \/ StartTimeProp = NoTime))
            => /\ reported' = reported
               /\ cameraZUpdates' = cameraZUpdates
               /\ currentPos' = currentPos
               /\ currentLookAt' = currentLookAt
               /\ previousStage' = previousStage
               /\ stage' = stage
               /\ cameraZ' = cameraZ]_vars
    /\ []((~dataLoaded \/ flightStartTime = NoTime)
            => /\ reported = << >> /\ cameraZUpdates = 0
               /\ currentPos = Vector3(0, 5, 20)
               /\ currentLookAt = Vector3(0, 5, -50)
               /\ previousStage = "launch"
               /\ stage = "loading"
               /\ cameraZ = Num(0))

\* Frames were rendered before the flight started, and the flight has since
\* moved the rig.
C25_Witness ==
    /\ flightStartTime > RigStepSec * TicksPerSec
    /\ cameraZUpdates > 0
    /\ stage = "sun"

\* C28: once the page stage is 'outro' the active flag is false, and the stage
\* stays 'outro' and cameraZ keeps its value in every later step.
C28_OutroAbsorbing ==
    [][stage = "outro"
        => /\ ~IsActive
           /\ stage' = "outro"
           /\ cameraZ' = cameraZ
           /\ cameraZUpdates' = cameraZUpdates]_vars

\* A frame was rendered after the one that reported 'outro'.
C28_Witness ==
    /\ stage = "outro"
    /\ clock > flightStartTime + frame.elapsed
    /\ cameraZ = currentPos.z

\* C30: in every processed frame the new smoothed depth is the previous one
\* moved by 0.01 of its distance to the base depth of the frame, it is what
\* onCameraZUpdate reports, it is not above the previous smoothed depth and not
\* below the base depth.
C30_SmoothedDepth ==
    [][cameraZUpdates' # cameraZUpdates
        => LET base == Num(frame'.baseZ)
               previous == currentPos.z
           IN /\ currentPos'.z = Add(previous, Hundredth(Sub(base, previous)))
              /\ cameraZ' = currentPos'.z
              /\ AtMost(cameraZ', previous)
              /\ AtMost(base, cameraZ')]_vars

\* After several frames the rig trails the base depth by more than 2000 units.
C30_Witness ==
    /\ cameraZUpdates > 5
    /\ Less(cameraZ, Coord(0))
    /\ Less(Add(Num(frame.baseZ), Coord(2000)), cameraZ)
    /\ Len(cameraZ.frac) > 2

(***************************************************************************)
(* The flight comes to its end                                             *)
(***************************************************************************)

\* The clock that is followed leaves room for one more frame, and for the
\* whole journey and one more frame after the start time.
RoomForFrame == clock + RigStepSec * TicksPerSec <= MaxClock
RoomForJourney ==
    flightStartTime + Duration + RigStepSec * TicksPerSec <= MaxClock

\* C29: once the data is loaded the flight is started; once it is started and
\* frames are rendered, the start time is set and the flight is active; once
\* the start time is set and frames are rendered for the 90 s of the journey,
\* the page stage is 'outro', and it is so from the first frame processed at
\* or after 90 s of elapsed time.
C29_ReachesOutro ==
    /\ dataLoaded ~> started
    /\ (started /\ flightStartTime = NoTime /\ RoomForFrame)
          ~> (flightStartTime # NoTime /\ started /\ stage # "outro")
    /\ (flightStartTime # NoTime /\ RoomForJourney) ~> (stage = "outro")
    /\ []((frame # NoFrame /\ frame.elapsed >= Duration) => stage = "outro")

\* A flight that began in time has arrived.
C29_Witness ==
    /\ flightStartTime # NoTime /\ RoomForJourney
    /\ stage = "outro"
    /\ reported # << >> /\ reported[Len(reported)] = "outro"

====
